---- MODULE Spec2Model ----
(***************************************************************************)
(* A model of the bearings library (src/bearings): the validated value     *)
(* objects Point and BearingLine, the great-circle intersection solver     *)
(* BearingLine._intersect with its policy layer get_intersect, the         *)
(* distance routine get_haversine_distance and geo_helpers.bounding_box.   *)
(*                                                                         *)
(* Angles in degrees are integers (multiples of 45 in every input set).    *)
(* Angles in radians are integers in units of pi/HalfTurn, so that         *)
(* math.radians is the conversion d * pi / 180 and not the identity.       *)
(* Distances are whole kilometres.                                         *)
(***************************************************************************)
EXTENDS Integers, Sequences, FiniteSets, TLC

VARIABLES
    lines,   \* the BearingLine objects, by name
    points,  \* the Point objects, by name
    ret      \* the outcome of the last call: what it returned or raised

vars == <<lines, points, ret>>

(***************************************************************************)
(* Bounds and units                                                        *)
(***************************************************************************)
\* math.pi on the discretised circle: one unit is 45 degrees.
HalfTurn == 4

\* the longest point_list handed to bounding_box
MaxLen == 3

LineIds == {"a", "b"}
PointIds == {"p", "q", "r"}

(***************************************************************************)
(* Python values handed to a call: a number, None, or something that is    *)
(* neither (a str).                                                        *)
(***************************************************************************)
Num(n) == [kind |-> "num", v |-> n]
None == [kind |-> "none", v |-> 0]
Str == [kind |-> "str", v |-> 0]

IsNumber(value) == value.kind = "num"
IsNone(value) == value.kind = "none"

Values(S) == {Num(n) : n \in S} \cup {Str}

(***************************************************************************)
(* Arithmetic helpers                                                      *)
(***************************************************************************)
Abs(n) == IF n < 0 THEN -n ELSE n

\* math.floor(y / x) for x # 0
Floor(y, x) == IF x > 0 THEN y \div x ELSE (-y) \div (-x)

\* math.radians in units of pi/HalfTurn
Radians(d) == Floor(d * HalfTurn, 180)

\* a modulo that truncates the quotient, so that the remainder follows the
\* sign of the dividend as math.fmod does
truncating_modulo(y, x) ==
    y - (x * (IF (y < 0) = (x < 0) THEN Abs(y) \div Abs(x)
                                  ELSE -(Abs(y) \div Abs(x))))

\* _safe_math.euclidean_modulo
euclidean_modulo(y, x) == y - (x * Floor(y, x))

(***************************************************************************)
(* The outcome of a call                                                   *)
(***************************************************************************)
Outcome(op, args, out, val, aux) ==
    [op |-> op, args |-> args, out |-> out, val |-> val, aux |-> aux]

NoCall == Outcome("none", <<>>, "none", <<>>, <<>>)

Errors == {"TypeError", "ValueError", "SyntaxError", "UnboundLocalError",
           "IdenticalInputPointError", "InfiniteIntersectionError",
           "AmbiguousIntersectionError", "ProbableDivergenceError",
           "AmbiguousBoxError", "ZeroDivisionError"}

Raised(r) == r.out \in Errors

(***************************************************************************)
(* Field validation: the property setters of BearingLine and Point         *)
(***************************************************************************)
\* a latitude setter that tests the longitude range
LatitudeCheckWide(value) ==
    IF ~IsNumber(value) THEN "TypeError"
    ELSE IF ~(-180 <= value.v /\ value.v <= 180) THEN "ValueError"
    ELSE "ok"

\* BearingLine.latitude setter
LatitudeCheck(value) ==
    IF ~IsNumber(value) THEN "TypeError"
    ELSE IF ~(-90 <= value.v /\ value.v <= 90) THEN "ValueError"
    ELSE "ok"

\* BearingLine.longitude setter
LongitudeCheck(value) ==
    IF ~IsNumber(value) THEN "TypeError"
    ELSE IF ~(-180 <= value.v /\ value.v <= 180) THEN "ValueError"
    ELSE "ok"

\* a bearing setter with the half-open range [0, 360)
BearingCheckHalfOpen(value) ==
    IF ~IsNumber(value) THEN "TypeError"
    ELSE IF ~(0 <= value.v /\ value.v < 360) THEN "ValueError"
    ELSE "ok"

\* BearingLine.bearing setter
BearingCheck(value) ==
    IF ~IsNumber(value) THEN "TypeError"
    ELSE IF ~(0 <= value.v /\ value.v <= 360) THEN "ValueError"
    ELSE "ok"

\* BearingLine.declination setter
DeclinationCheck(value) ==
    IF ~IsNumber(value) THEN "TypeError"
    ELSE IF ~(-180 <= value.v /\ value.v <= 180) THEN "ValueError"
    ELSE "ok"

\* Point.latitude setter
PointLatitudeCheck(value) ==
    IF ~IsNumber(value) THEN "TypeError"
    ELSE IF ~(-90 <= value.v /\ value.v <= 90) THEN "ValueError"
    ELSE "ok"

\* Point.longitude setter
PointLongitudeCheck(value) ==
    IF ~IsNumber(value) THEN "TypeError"
    ELSE IF ~(-180 <= value.v /\ value.v <= 180) THEN "ValueError"
    ELSE "ok"

(***************************************************************************)
(* BearingLine objects                                                     *)
(***************************************************************************)
NoLine == [exists |-> FALSE, latitude |-> 0, longitude |-> 0, bearing |-> 0,
           declination |-> 0, latitude_radians |-> 0, longitude_radians |-> 0,
           true_bearing |-> 0, true_bearing_radians |-> 0]

\* BearingLine._bearing_to_true_bearing
BearingToTrueBearing(bearing, declination) == bearing + declination

\* the first setter of __init__ that raises, in the order __init__ assigns
InitOutcome(latitude, longitude, bearing, declination) ==
    IF LatitudeCheck(latitude) # "ok" THEN LatitudeCheck(latitude)
    ELSE IF LongitudeCheck(longitude) # "ok" THEN LongitudeCheck(longitude)
    ELSE IF BearingCheck(bearing) # "ok" THEN BearingCheck(bearing)
    ELSE DeclinationCheck(declination)

\* BearingLine.__init__: the object exists only if no setter raised
NewBearingLine(id, latitude, longitude, bearing, declination) ==
    /\ ~lines[id].exists
    /\ LET out == InitOutcome(latitude, longitude, bearing, declination)
           tb == BearingToTrueBearing(bearing.v, declination.v)
       IN /\ ret' = Outcome("BearingLine",
                            [id |-> id, latitude |-> latitude,
                             longitude |-> longitude, bearing |-> bearing,
                             declination |-> declination],
                            out, <<>>, <<>>)
          /\ lines' = IF out # "ok" THEN lines
                      ELSE [lines EXCEPT ![id] =
                              [exists |-> TRUE,
                               latitude |-> latitude.v,
                               longitude |-> longitude.v,
                               latitude_radians |-> Radians(latitude.v),
                               longitude_radians |-> Radians(longitude.v),
                               bearing |-> bearing.v,
                               declination |-> declination.v,
                               true_bearing |-> tb,
                               true_bearing_radians |-> Radians(tb)]]
    /\ UNCHANGED points

\* line.latitude = value
SetLatitude(id, value) ==
    /\ lines[id].exists
    /\ LET out == LatitudeCheck(value)
       IN /\ ret' = Outcome("set_latitude", [id |-> id, value |-> value],
                            out, <<>>, <<>>)
          /\ lines' = IF out # "ok" THEN lines
                      ELSE [lines EXCEPT ![id].latitude = value.v]
    /\ UNCHANGED points

\* line.longitude = value
SetLongitude(id, value) ==
    /\ lines[id].exists
    /\ LET out == LongitudeCheck(value)
       IN /\ ret' = Outcome("set_longitude", [id |-> id, value |-> value],
                            out, <<>>, <<>>)
          /\ lines' = IF out # "ok" THEN lines
                      ELSE [lines EXCEPT ![id].longitude = value.v]
    /\ UNCHANGED points

\* line.bearing = value
SetBearing(id, value) ==
    /\ lines[id].exists
    /\ LET out == BearingCheck(value)
       IN /\ ret' = Outcome("set_bearing", [id |-> id, value |-> value],
                            out, <<>>, <<>>)
          /\ lines' = IF out # "ok" THEN lines
                      ELSE [lines EXCEPT ![id].bearing = value.v]
    /\ UNCHANGED points

\* line.declination = value
SetDeclination(id, value) ==
    /\ lines[id].exists
    /\ LET out == DeclinationCheck(value)
       IN /\ ret' = Outcome("set_declination", [id |-> id, value |-> value],
                            out, <<>>, <<>>)
          /\ lines' = IF out # "ok" THEN lines
                      ELSE [lines EXCEPT ![id].declination = value.v]
    /\ UNCHANGED points

(***************************************************************************)
(* Point objects                                                           *)
(***************************************************************************)
NoPoint == [exists |-> FALSE, latitude |-> 0, longitude |-> 0]

\* the first setter of Point.__init__ that raises
PointInitOutcome(latitude, longitude) ==
    IF PointLatitudeCheck(latitude) # "ok" THEN PointLatitudeCheck(latitude)
    ELSE PointLongitudeCheck(longitude)

\* Point.__init__
NewPoint(id, latitude, longitude) ==
    /\ ~points[id].exists
    /\ LET out == PointInitOutcome(latitude, longitude)
       IN /\ ret' = Outcome("Point",
                            [id |-> id, latitude |-> latitude,
                             longitude |-> longitude],
                            out, <<>>, <<>>)
          /\ points' = IF out # "ok" THEN points
                       ELSE [points EXCEPT ![id] =
                               [exists |-> TRUE, latitude |-> latitude.v,
                                longitude |-> longitude.v]]
    /\ UNCHANGED lines

\* point.latitude = value
SetPointLatitude(id, value) ==
    /\ points[id].exists
    /\ LET out == PointLatitudeCheck(value)
       IN /\ ret' = Outcome("set_point_latitude", [id |-> id, value |-> value],
                            out, <<>>, <<>>)
          /\ points' = IF out # "ok" THEN points
                       ELSE [points EXCEPT ![id].latitude = value.v]
    /\ UNCHANGED lines

\* point.longitude = value
SetPointLongitude(id, value) ==
    /\ points[id].exists
    /\ LET out == PointLongitudeCheck(value)
       IN /\ ret' = Outcome("set_point_longitude", [id |-> id, value |-> value],
                            out, <<>>, <<>>)
          /\ points' = IF out # "ok" THEN points
                       ELSE [points EXCEPT ![id].longitude = value.v]
    /\ UNCHANGED lines

(***************************************************************************)
(* Initial state: no object has been constructed, no call made.            *)
(***************************************************************************)
Init ==
    /\ lines = [id \in LineIds |-> NoLine]
    /\ points = [id \in PointIds |-> NoPoint]
    /\ ret = NoCall

(***************************************************************************)
(* SpecValidate: one BearingLine and one Point, constructed and then       *)
(* mutated through their setters with valid, out-of-range and non-numeric  *)
(* values.                                                                 *)
(***************************************************************************)
ValidateLatitudes == Values({-135, 0, 90})
ValidateLongitudes == Values({-225, 0, 180})
ValidateBearings == Values({-45, 0, 315, 360, 405})
ValidateDeclinations == Values({-225, 0, 180})

NextValidate ==
    \/ \E latitude \in ValidateLatitudes, longitude \in ValidateLongitudes,
          bearing \in ValidateBearings, declination \in ValidateDeclinations :
          NewBearingLine("a", latitude, longitude, bearing, declination)
    \/ \E value \in ValidateLatitudes : SetLatitude("a", value)
    \/ \E value \in ValidateLongitudes : SetLongitude("a", value)
    \/ \E value \in ValidateBearings : SetBearing("a", value)
    \/ \E value \in ValidateDeclinations : SetDeclination("a", value)
    \/ \E latitude \in ValidateLatitudes, longitude \in ValidateLongitudes :
          NewPoint("p", latitude, longitude)
    \/ \E value \in ValidateLatitudes : SetPointLatitude("p", value)
    \/ \E value \in ValidateLongitudes : SetPointLongitude("p", value)

SpecValidate == Init /\ [][NextValidate]_vars

(***************************************************************************)
(* Trigonometry on the discretised circle                                  *)
(***************************************************************************)
\* a quarter turn, pi/2: the value of acos(0) and of radians(90)
Quarter == HalfTurn \div 2

\* The possible signs of math.sin(a).  Away from the multiples of pi the
\* sign is that of the real sine, and sin(0.0) is exactly 0.0; at a non-zero
\* multiple of pi the float is rounding noise (math.sin(math.pi) is
\* 1.2e-16, math.sin(2*math.pi) is -2.4e-16), so any sign can come out.
SinSigns(a) ==
    LET r == euclidean_modulo(a, 2 * HalfTurn)
    IN IF a = 0 THEN {0}
       ELSE IF r = 0 \/ r = HalfTurn THEN {-1, 0, 1}
       ELSE IF r < HalfTurn THEN {1}
       ELSE {-1}

\* a normalisation that reflects the angle before and after the modulo, and
\* so lands in (-pi, pi]
NormUpper(a) == HalfTurn - euclidean_modulo(HalfTurn - a, 2 * HalfTurn)

\* euclidean_modulo(a + pi, 2 pi) - pi, the normalisation of ang1, ang2, lon3
Norm(a) == euclidean_modulo(a + HalfTurn, 2 * HalfTurn) - HalfTurn

\* The pairs <<crs12, crs21>> the solver can compute for two origins that
\* are not identical.  With both origins on the equator sin(lat) is exactly
\* 0, both acos_safe arguments are 0 and each course is pi/2 or 2 pi - pi/2
\* by the sign of sin(lon2 - lon1).  With an origin at a pole cos(lat) is
\* rounding noise, the quotient handed to acos_safe is noise, and any course
\* can come out.
Courses(lat1, lon1, lat2, lon2) ==
    IF lat1 = 0 /\ lat2 = 0
    THEN {IF s < 0 THEN <<Quarter, 2 * HalfTurn - Quarter>>
                   ELSE <<2 * HalfTurn - Quarter, Quarter>> :
             s \in SinSigns(lon2 - lon1)}
    ELSE (0 .. 2 * HalfTurn) \X (0 .. 2 * HalfTurn)

\* The central angle between two points, each at a pole or on the equator
\* (every latitude of the input sets is): what 2*asin(sqrt(h)) evaluates to.
CentralAngle(lat1, lon1, lat2, lon2) ==
    IF Abs(lat1) = Quarter \/ Abs(lat2) = Quarter
    THEN Abs(lat1 - lat2)
    ELSE LET d == euclidean_modulo(lon1 - lon2, 2 * HalfTurn)
         IN IF d > HalfTurn THEN 2 * HalfTurn - d ELSE d

\* approx. radius of earth in km
radius == 6371

\* radius * angle in whole kilometres, with pi taken as 355/113
DistanceKm(angle) == (radius * 355 * angle) \div (113 * HalfTurn)

(***************************************************************************)
(* BearingLine.get_haversine_distance(lat2, lon2, other)                   *)
(***************************************************************************)
NoOther == "None"

Distance(out, km) == [out |-> out, val |-> km]

get_haversine_distance(self, lat2, lon2, other) ==
    LET lat1 == lines[self].latitude_radians
        lon1 == lines[self].longitude_radians
    IN IF other = NoOther /\ ~(IsNone(lat2) /\ IsNone(lon2))
       THEN IF ~(IsNumber(lat2) /\ IsNumber(lon2))
            THEN Distance("TypeError", <<>>)
            ELSE IF ~(/\ -90 <= lat2.v /\ lat2.v <= 90
                      /\ -180 <= lon2.v /\ lon2.v <= 180)
            THEN Distance("ValueError", <<>>)
            ELSE Distance("distance",
                   <<DistanceKm(CentralAngle(lat1, lon1,
                                   Radians(lat2.v), Radians(lon2.v)))>>)
       ELSE IF other # NoOther /\ IsNone(lat2) /\ IsNone(lon2)
       THEN Distance("distance",
              <<DistanceKm(CentralAngle(lat1, lon1,
                              lines[other].latitude_radians,
                              lines[other].longitude_radians))>>)
       ELSE IF other = NoOther /\ IsNone(lat2) /\ IsNone(lon2)
       THEN Distance("SyntaxError", <<>>)
       ELSE IF other # NoOther /\ ~IsNone(lat2) /\ ~IsNone(lon2)
       THEN Distance("SyntaxError", <<>>)
       \* no branch taken: lat1 is read at line 171 without ever being bound
       ELSE Distance("UnboundLocalError", <<>>)

GetHaversineDistance(self, lat2, lon2, other) ==
    /\ lines[self].exists
    /\ other # NoOther => lines[other].exists
    /\ LET d == get_haversine_distance(self, lat2, lon2, other)
       IN ret' = Outcome("get_haversine_distance",
                         [self |-> self, lat2 |-> lat2, lon2 |-> lon2,
                          other |-> other],
                         d.out, d.val, <<>>)
    /\ UNCHANGED <<lines, points>>

(***************************************************************************)
(* BearingLine._intersect(other, suppress_errors)                          *)
(***************************************************************************)
\* The coordinates the numeric stage (lines 246-258) can return: lat3 is
\* the degrees of an asin_safe, lon3 the degrees of a normalised angle.  The
\* value itself is a float computation; any pair of the grid can come out.
ResultGrid == {<<0, 0>>, <<90, 0>>, <<0, 180>>}

Raw(out, val, s1, s2) == [out |-> out, val |-> val, s1 |-> s1, s2 |-> s2]

\* lines 205-212: the two origins are the same in radians
IdenticalOrigins(self, other) ==
    /\ lines[self].latitude_radians = lines[other].latitude_radians
    /\ -lines[self].longitude_radians = -lines[other].longitude_radians

\* a classification whose ambiguity test is <= 0 instead of < 0
ClassifyNonStrict(s1, s2, suppress_errors) ==
    IF s1 = 0 /\ s2 = 0
    THEN {Raw(IF ~suppress_errors THEN "InfiniteIntersectionError" ELSE "None",
              <<>>, s1, s2)}
    ELSE IF s1 * s2 <= 0
    THEN {Raw(IF ~suppress_errors THEN "AmbiguousIntersectionError" ELSE "None",
              <<>>, s1, s2)}
    ELSE {Raw("tuple", intersect, s1, s2) : intersect \in ResultGrid}

\* lines 231-260: the outcomes for the signs s1, s2 of sin(ang1), sin(ang2)
Classify(s1, s2, suppress_errors) ==
    IF s1 = 0 /\ s2 = 0
    THEN {Raw(IF ~suppress_errors THEN "InfiniteIntersectionError" ELSE "None",
              <<>>, s1, s2)}
    ELSE IF s1 * s2 < 0
    THEN {Raw(IF ~suppress_errors THEN "AmbiguousIntersectionError" ELSE "None",
              <<>>, s1, s2)}
    ELSE {Raw("tuple", intersect, s1, s2) : intersect \in ResultGrid}

\* every outcome _intersect can have on the two lines
Intersect(self, other, suppress_errors) ==
    LET lat1 == lines[self].latitude_radians
        lon1 == -lines[self].longitude_radians
        crs13 == lines[self].true_bearing_radians
        lat2 == lines[other].latitude_radians
        lon2 == -lines[other].longitude_radians
        crs23 == lines[other].true_bearing_radians
    IN IF IdenticalOrigins(self, other)
       THEN {Raw(IF ~suppress_errors THEN "IdenticalInputPointError" ELSE "None",
                 <<>>, 0, 0)}
       ELSE UNION {UNION {Classify(s1, s2, suppress_errors) :
                             s1 \in SinSigns(Norm(crs13 - c[1])),
                             s2 \in SinSigns(Norm(c[2] - crs23))} :
                      c \in Courses(lat1, lon1, lat2, lon2)}

IntersectCall(self, other, suppress_errors) ==
    /\ lines[self].exists /\ lines[other].exists
    /\ \E raw \in Intersect(self, other, suppress_errors) :
          ret' = Outcome("_intersect",
                         [self |-> self, other |-> other,
                          suppress_errors |-> suppress_errors],
                         raw.out, raw.val, raw)
    /\ UNCHANGED <<lines, points>>

(***************************************************************************)
(* BearingLine.get_intersect: the policy layer                             *)
(***************************************************************************)
\* bool(suppress_greater_than): None and 0 are falsy
Truthy(value) == IsNumber(value) /\ value.v # 0

\* a policy layer that tests the warn flag before the suppress flag
PolicyWarnFirst(self, other, warn_probable_divergence, suppress_probable_divergence, suppress_greater_than, raw) ==
    IF raw.out \in Errors THEN Distance(raw.out, <<>>)
    ELSE IF ~(\/ warn_probable_divergence
              \/ suppress_probable_divergence
              \/ Truthy(suppress_greater_than))
    THEN Distance(raw.out, raw.val)
    ELSE IF raw.out = "None" THEN Distance("None", <<>>)
    ELSE LET this_point_to_intersect ==
                 get_haversine_distance(self, Num(raw.val[1]), Num(raw.val[2]),
                                        NoOther).val[1]
             other_point_to_intersect ==
                 get_haversine_distance(other, Num(raw.val[1]), Num(raw.val[2]),
                                        NoOther).val[1]
             this_point_to_other ==
                 get_haversine_distance(self, None, None, other).val[1]
             max_point_to_intersect ==
                 IF this_point_to_intersect >= other_point_to_intersect
                 THEN this_point_to_intersect ELSE other_point_to_intersect
         IN IF /\ ~IsNone(suppress_greater_than)
               /\ max_point_to_intersect > suppress_greater_than.v
            THEN Distance("None", <<>>)
            ELSE IF /\ this_point_to_intersect > 10000
                    /\ other_point_to_intersect > 10000
                    /\ this_point_to_other < 10000
            THEN IF warn_probable_divergence
                 THEN Distance("ProbableDivergenceError", <<>>)
                 ELSE IF suppress_probable_divergence
                 THEN Distance("None", <<>>)
                 ELSE Distance("Point", raw.val)
            ELSE Distance("Point", raw.val)

\* lines 300-329 on the solver's outcome raw
Policy(self, other, warn_probable_divergence, suppress_probable_divergence, suppress_greater_than, raw) ==
    IF raw.out \in Errors THEN Distance(raw.out, <<>>)
    ELSE IF ~(\/ warn_probable_divergence
              \/ suppress_probable_divergence
              \/ Truthy(suppress_greater_than))
    THEN Distance(raw.out, raw.val)
    ELSE IF raw.out = "None" THEN Distance("None", <<>>)
    ELSE LET this_point_to_intersect ==
                 get_haversine_distance(self, Num(raw.val[1]), Num(raw.val[2]),
                                        NoOther).val[1]
             other_point_to_intersect ==
                 get_haversine_distance(other, Num(raw.val[1]), Num(raw.val[2]),
                                        NoOther).val[1]
             this_point_to_other ==
                 get_haversine_distance(self, None, None, other).val[1]
             max_point_to_intersect ==
                 IF this_point_to_intersect >= other_point_to_intersect
                 THEN this_point_to_intersect ELSE other_point_to_intersect
         IN IF /\ ~IsNone(suppress_greater_than)
               /\ max_point_to_intersect > suppress_greater_than.v
            THEN Distance("None", <<>>)
            ELSE IF /\ this_point_to_intersect > 10000
                    /\ other_point_to_intersect > 10000
                    /\ this_point_to_other < 10000
            THEN IF suppress_probable_divergence THEN Distance("None", <<>>)
                 ELSE IF warn_probable_divergence
                 THEN Distance("ProbableDivergenceError", <<>>)
                 ELSE Distance("Point", raw.val)
            ELSE Distance("Point", raw.val)

GetIntersect(self, other, warn_probable_divergence, suppress_probable_divergence, suppress_greater_than, ignore_errors) ==
    /\ lines[self].exists /\ lines[other].exists
    /\ \E raw \in Intersect(self, other, ignore_errors) :
          LET got == Policy(self, other, warn_probable_divergence,
                            suppress_probable_divergence,
                            suppress_greater_than, raw)
          IN ret' = Outcome("get_intersect",
                            [self |-> self, other |-> other,
                             warn_probable_divergence |-> warn_probable_divergence,
                             suppress_probable_divergence |->
                                 suppress_probable_divergence,
                             suppress_greater_than |-> suppress_greater_than,
                             ignore_errors |-> ignore_errors],
                            got.out, got.val,
                            [out |-> raw.out, val |-> raw.val])
    /\ UNCHANGED <<lines, points>>

(***************************************************************************)
(* Spec: two BearingLines are constructed, then the raw solver and the     *)
(* distance routine are called on them.                                    *)
(***************************************************************************)
SolveLatitudes == Values({0, 90})
SolveLongitudes == Values({0, 45})
SolveBearings == Values({0, 90})
DistanceLatitudes == {None, Str, Num(0), Num(135)}
DistanceLongitudes == {None, Num(45)}

Next ==
    \/ \E id \in LineIds, latitude \in SolveLatitudes,
          longitude \in SolveLongitudes, bearing \in SolveBearings :
          NewBearingLine(id, latitude, longitude, bearing, Num(0))
    \/ \E other \in LineIds, suppress_errors \in BOOLEAN :
          IntersectCall("a", other, suppress_errors)
    \/ \E lat2 \in DistanceLatitudes, lon2 \in DistanceLongitudes,
          other \in {NoOther, "b"} :
          GetHaversineDistance("a", lat2, lon2, other)

Spec == Init /\ [][Next]_vars

(***************************************************************************)
(* SpecPolicy: two BearingLines on the equator are constructed, then       *)
(* get_intersect is called with every combination of its flags.            *)
(***************************************************************************)
PolicyLongitudes == Values({0, 45, 180})
PolicyBearings == Values({0, 90})
PolicyCaps == {None, Num(0), Num(12000)}

NextPolicy ==
    \/ \E id \in LineIds, longitude \in PolicyLongitudes,
          bearing \in PolicyBearings :
          NewBearingLine(id, Num(0), longitude, bearing, Num(0))
    \/ \E warn \in BOOLEAN, suppress \in BOOLEAN, cap \in PolicyCaps,
          ignore_errors \in BOOLEAN :
          GetIntersect("a", "b", warn, suppress, cap, ignore_errors)

SpecPolicy == Init /\ [][NextPolicy]_vars

(***************************************************************************)
(* geo_helpers.bounding_box(point_list)                                    *)
(***************************************************************************)
\* an element of point_list that is no Point
NotAPoint == "NotAPoint"

\* the builtin min and max of a non-empty list
RECURSIVE ListMin(_)
ListMin(s) ==
    IF Len(s) = 1 THEN s[1]
    ELSE LET m == ListMin(Tail(s)) IN IF s[1] <= m THEN s[1] ELSE m

RECURSIVE ListMax(_)
ListMax(s) ==
    IF Len(s) = 1 THEN s[1]
    ELSE LET m == ListMax(Tail(s)) IN IF s[1] >= m THEN s[1] ELSE m

\* lines 34-41: the four extremes, or the ValueError min() raises on an
\* empty list
Extremes(latitudes, longitudes) ==
    IF Len(longitudes) = 0 THEN Distance("ValueError", <<>>)
    ELSE Distance("extremes",
                  <<ListMin(longitudes), ListMax(longitudes),
                    ListMin(latitudes), ListMax(latitudes)>>)

\* a box test that refuses only the box degenerate on both axes
BoxOutcomeBothAxes(min_lon, max_lon, min_lat, max_lat) ==
    IF min_lon = max_lon /\ min_lat = max_lat
    THEN Distance("AmbiguousBoxError", <<>>)
    ELSE Distance("tuple", <<min_lon, max_lon, min_lat, max_lat>>)

\* lines 41-46: the degenerate box is refused
BoxOutcome(min_lon, max_lon, min_lat, max_lat) ==
    IF min_lon = max_lon \/ min_lat = max_lat
    THEN Distance("AmbiguousBoxError", <<>>)
    ELSE Distance("tuple", <<min_lon, max_lon, min_lat, max_lat>>)

bounding_box(point_list) ==
    IF \E i \in 1 .. Len(point_list) : point_list[i] = NotAPoint
    THEN Distance("TypeError", <<>>)
    ELSE LET latitudes == [i \in 1 .. Len(point_list) |->
                              points[point_list[i]].latitude]
             longitudes == [i \in 1 .. Len(point_list) |->
                               points[point_list[i]].longitude]
             e == Extremes(latitudes, longitudes)
         IN IF e.out # "extremes" THEN e
            ELSE BoxOutcome(e.val[1], e.val[2], e.val[3], e.val[4])

\* the lists of at most MaxLen constructed Points
PointLists ==
    UNION {[1 .. n -> {id \in PointIds : points[id].exists}] : n \in 0 .. MaxLen}

BoundingBox(point_list) ==
    /\ LET box == bounding_box(point_list)
       IN ret' = Outcome("bounding_box",
                         [point_list |-> point_list,
                          latitudes |->
                              [i \in 1 .. Len(point_list) |->
                                  IF point_list[i] = NotAPoint THEN 0
                                  ELSE points[point_list[i]].latitude],
                          longitudes |->
                              [i \in 1 .. Len(point_list) |->
                                  IF point_list[i] = NotAPoint THEN 0
                                  ELSE points[point_list[i]].longitude]],
                         box.out, box.val, <<>>)
    /\ UNCHANGED <<lines, points>>

(***************************************************************************)
(* SpecBox: Points are constructed and moved, and bounding_box is called   *)
(* on lists of them.                                                       *)
(***************************************************************************)
BoxLatitudes == Values({0, 90})
BoxLongitudes == Values({0, 45})

NextBox ==
    \/ \E id \in PointIds, latitude \in BoxLatitudes,
          longitude \in BoxLongitudes :
          NewPoint(id, latitude, longitude)
    \/ \E value \in BoxLatitudes : SetPointLatitude("p", value)
    \/ \E value \in BoxLongitudes : SetPointLongitude("p", value)
    \/ \E point_list \in PointLists : BoundingBox(point_list)
    \/ BoundingBox(<<NotAPoint>>)

SpecBox == Init /\ [][NextBox]_vars

(***************************************************************************)
(* Properties                                                              *)
(***************************************************************************)
C1_Expected(identical, s1, s2, suppress_errors) ==
    IF identical
    THEN IF suppress_errors THEN "None" ELSE "IdenticalInputPointError"
    ELSE IF s1 = 0 /\ s2 = 0
    THEN IF suppress_errors THEN "None" ELSE "InfiniteIntersectionError"
    ELSE IF s1 * s2 < 0
    THEN IF suppress_errors THEN "None" ELSE "AmbiguousIntersectionError"
    ELSE "tuple"

C2_ReturnsPointOrNone ==
    (ret.op = "get_intersect" /\ ret.out \notin Errors) =>
        ret.out \in {"Point", "None"}

\* the distances get_intersect measures for the last call
LastThisToIntersect ==
    get_haversine_distance(ret.args.self, Num(ret.aux.val[1]),
                           Num(ret.aux.val[2]), NoOther).val[1]
LastOtherToIntersect ==
    get_haversine_distance(ret.args.other, Num(ret.aux.val[1]),
                           Num(ret.aux.val[2]), NoOther).val[1]
LastThisToOther ==
    get_haversine_distance(ret.args.self, None, None, ret.args.other).val[1]

\* the solver found an intersection in the last get_intersect call
LastFound == ret.op = "get_intersect" /\ ret.aux.out = "tuple"

\* the larger origin-to-intersection distance exceeds the cap that is set
LastCapBreached ==
    /\ ~IsNone(ret.args.suppress_greater_than)
    /\ \/ LastThisToIntersect > ret.args.suppress_greater_than.v
       \/ LastOtherToIntersect > ret.args.suppress_greater_than.v

\* the probable-divergence condition
LastProbableDivergence ==
    /\ LastThisToIntersect > 10000
    /\ LastOtherToIntersect > 10000
    /\ LastThisToOther < 10000

C4_CapSuppresses ==
    (LastFound /\ LastCapBreached) => ret.out = "None"

SetterOps == {"set_latitude", "set_longitude", "set_bearing",
              "set_declination", "set_point_latitude", "set_point_longitude"}

\* the inclusive range each validated field is held to
FieldLow(op) ==
    CASE op \in {"set_latitude", "set_point_latitude"} -> -90
      [] op \in {"set_longitude", "set_point_longitude"} -> -180
      [] op = "set_bearing" -> 0
      [] op = "set_declination" -> -180
FieldHigh(op) ==
    CASE op \in {"set_latitude", "set_point_latitude"} -> 90
      [] op \in {"set_longitude", "set_point_longitude"} -> 180
      [] op = "set_bearing" -> 360
      [] op = "set_declination" -> 180

InRange(op, value) ==
    IsNumber(value) /\ FieldLow(op) <= value.v /\ value.v <= FieldHigh(op)

\* every object that exists holds fields in range
C5_FieldsInRange ==
    /\ \A id \in LineIds : lines[id].exists =>
          /\ -90 <= lines[id].latitude /\ lines[id].latitude <= 90
          /\ -180 <= lines[id].longitude /\ lines[id].longitude <= 180
          /\ -180 <= lines[id].declination /\ lines[id].declination <= 180
    /\ \A id \in PointIds : points[id].exists =>
          /\ -90 <= points[id].latitude /\ points[id].latitude <= 90
          /\ -180 <= points[id].longitude /\ points[id].longitude <= 180

\* a call with a bad value fails, by type or by range
C5_BadValueFails ==
    /\ ret.op \in SetterOps =>
          /\ ret.out = "TypeError" <=> ~IsNumber(ret.args.value)
          /\ ret.out = "ValueError" <=>
                (IsNumber(ret.args.value) /\ ~InRange(ret.op, ret.args.value))
    /\ ret.op = "BearingLine" =>
          /\ ret.out \in {"ok", "TypeError", "ValueError"}
          /\ ret.out = "ok" <=>
                /\ InRange("set_latitude", ret.args.latitude)
                /\ InRange("set_longitude", ret.args.longitude)
                /\ InRange("set_bearing", ret.args.bearing)
                /\ InRange("set_declination", ret.args.declination)
          /\ ret.out = "ok" => lines[ret.args.id].exists
    /\ ret.op = "Point" =>
          /\ ret.out \in {"ok", "TypeError", "ValueError"}
          /\ ret.out = "ok" <=>
                /\ InRange("set_point_latitude", ret.args.latitude)
                /\ InRange("set_point_longitude", ret.args.longitude)
          /\ ret.out = "ok" => points[ret.args.id].exists

\* a call that raised changed no object
C5_FailureChangesNothing ==
    Raised(ret') => (lines' = lines /\ points' = points)

\* C5: every Point and BearingLine that exists has latitude in [-90, 90] and
\* longitude in [-180, 180], every BearingLine has declination in
\* [-180, 180]; a constructor or setter call with a non-numeric value fails
\* with TypeError, one with an out-of-range value with ValueError, and a
\* call that fails leaves every stored field as it was.
C5_ValidatedFields ==
    /\ [](C5_FieldsInRange /\ C5_BadValueFails)
    /\ [][C5_FailureChangesNothing]_vars

\* C5 witness: an out-of-range latitude was refused on a line that exists
C5_Witness ==
    /\ ret.op = "set_latitude"
    /\ ret.out = "ValueError"
    /\ lines["a"].exists

\* the bearing a call offered, if the call got as far as the bearing
BearingOffered ==
    \/ ret.op = "set_bearing"
    \/ /\ ret.op = "BearingLine"
       /\ InRange("set_latitude", ret.args.latitude)
       /\ InRange("set_longitude", ret.args.longitude)
       /\ InRange("set_declination", ret.args.declination)
OfferedBearing ==
    IF ret.op = "set_bearing" THEN ret.args.value ELSE ret.args.bearing

\* C6 as stated: a bearing is accepted iff it is a number with
\* 0 <= bearing < 360, and no BearingLine holds a bearing outside [0, 360)
C6_BearingHalfOpen ==
    /\ BearingOffered =>
          (ret.out = "ok" <=>
              /\ IsNumber(OfferedBearing)
              /\ 0 <= OfferedBearing.v /\ OfferedBearing.v < 360)
    /\ \A id \in LineIds : lines[id].exists =>
          (0 <= lines[id].bearing /\ lines[id].bearing < 360)

\* C6 amended: a bearing is accepted iff it is a number with
\* 0 <= bearing <= 360 (360 itself is accepted), and no BearingLine holds a
\* bearing outside [0, 360]
C6_BearingClosed ==
    /\ BearingOffered =>
          (ret.out = "ok" <=>
              /\ IsNumber(OfferedBearing)
              /\ 0 <= OfferedBearing.v /\ OfferedBearing.v <= 360)
    /\ \A id \in LineIds : lines[id].exists =>
          (0 <= lines[id].bearing /\ lines[id].bearing <= 360)

\* C6 witness: the bearing setter accepted 360
C6_Witness ==
    /\ ret.op = "set_bearing"
    /\ ret.args.value = Num(360)
    /\ ret.out = "ok"
    /\ lines["a"].bearing = 360

\* C7: in every state of a BearingLine the derived attributes agree with the
\* stored fields: true_bearing = bearing + declination, and the three
\* radians attributes are the radians of latitude, longitude, true_bearing
C7_DerivedAgree ==
    \A id \in LineIds : lines[id].exists =>
        /\ lines[id].true_bearing = lines[id].bearing + lines[id].declination
        /\ lines[id].latitude_radians = Radians(lines[id].latitude)
        /\ lines[id].longitude_radians = Radians(lines[id].longitude)
        /\ lines[id].true_bearing_radians = Radians(lines[id].true_bearing)

\* the values of a list, and the least and greatest of a set of numbers
Range(seq) == {seq[i] : i \in 1 .. Len(seq)}
Least(S) == CHOOSE m \in S : \A n \in S : m <= n
Greatest(S) == CHOOSE m \in S : \A n \in S : m >= n

\* C8: on a non-empty list of Points bounding_box raises AmbiguousBoxError
\* iff the least longitude equals the greatest or the least latitude equals
\* the greatest, and otherwise returns (min_lon, max_lon, min_lat, max_lat),
\* the true extremes, with min_lon < max_lon and min_lat < max_lat
C8_BoundingBox ==
    (/\ ret.op = "bounding_box"
     /\ Len(ret.args.point_list) > 0
     /\ NotAPoint \notin Range(ret.args.point_list)) =>
        LET lons == Range(ret.args.longitudes)
            lats == Range(ret.args.latitudes)
            flat == \/ Least(lons) = Greatest(lons)
                    \/ Least(lats) = Greatest(lats)
        IN /\ ret.out = "AmbiguousBoxError" <=> flat
           /\ ~flat =>
                 /\ ret.out = "tuple"
                 /\ ret.val = <<Least(lons), Greatest(lons),
                                Least(lats), Greatest(lats)>>
                 /\ ret.val[1] < ret.val[2]
                 /\ ret.val[3] < ret.val[4]

\* C8 witness: a box was returned for a list of three Points whose first is
\* neither the westernmost nor the southernmost
C8_Witness ==
    /\ ret.op = "bounding_box"
    /\ Len(ret.args.point_list) = 3
    /\ ret.out = "tuple"
    /\ ret.args.longitudes[1] > ret.val[1]
    /\ ret.args.latitudes[1] > ret.val[3]

\* C9: bounding_box on an empty list fails with EmptyInputError
C9_EmptyInputError ==
    (ret.op = "bounding_box" /\ Len(ret.args.point_list) = 0) =>
        ret.out = "EmptyInputError"

\* C10: get_haversine_distance returns a distance only when exactly one
\* form of argument is supplied (other alone, or lat2 and lon2 without
\* other); with nothing supplied, or with other together with any explicit
\* coordinate, it fails with SyntaxError
C10_ArgumentShape ==
    ret.op = "get_haversine_distance" =>
        LET line == ret.args.other # NoOther
            lat == ~IsNone(ret.args.lat2)
            lon == ~IsNone(ret.args.lon2)
        IN /\ ret.out = "distance" =>
                 \/ line /\ ~lat /\ ~lon
                 \/ ~line /\ lat /\ lon
           /\ (~line /\ ~lat /\ ~lon) => ret.out = "SyntaxError"
           /\ (line /\ (lat \/ lon)) => ret.out = "SyntaxError"

(***************************************************************************)
(* SpecModulo: euclidean_modulo is called on bounded integers, and the     *)
(* solver's angle normalisation on bounded angles of the discretised       *)
(* circle.                                                                 *)
(***************************************************************************)
\* the largest dividend and divisor, in magnitude
MaxDividend == 7
MaxDivisor == 4

\* euclidean_modulo(y, x): y/x raises ZeroDivisionError for x = 0
EuclideanModuloCall(y, x) ==
    /\ ret' = IF x = 0
              THEN Outcome("euclidean_modulo", [y |-> y, x |-> x],
                           "ZeroDivisionError", <<>>, <<>>)
              ELSE Outcome("euclidean_modulo", [y |-> y, x |-> x],
                           "number", <<euclidean_modulo(y, x)>>, <<>>)
    /\ UNCHANGED <<lines, points>>

\* the quotients a call on the bounded inputs can have
Quotients == -(MaxDividend + 1) .. (MaxDividend + 1)

\* q = floor(y / x): the integer with q <= y/x < q + 1
IsFloor(q, y, x) ==
    IF x > 0 THEN q * x <= y /\ y < (q + 1) * x
             ELSE q * x >= y /\ y > (q + 1) * x

\* C11: for every dividend y and non-zero divisor x, euclidean_modulo(y, x)
\* equals y - x*floor(y/x), is congruent to y modulo x, and is zero or has
\* the sign of x with magnitude below |x| (0 <= r < x for x > 0,
\* x < r <= 0 for x < 0); in particular euclidean_modulo(-1, 3) = 2
C11_EuclideanModulo ==
    (ret.op = "euclidean_modulo" /\ ret.args.x # 0) =>
        LET y == ret.args.y
            x == ret.args.x
        IN /\ ret.out = "number"
           /\ \E q \in Quotients : IsFloor(q, y, x) /\ ret.val[1] = y - x * q
           /\ \E k \in Quotients : y - ret.val[1] = k * x
           /\ x > 0 => (0 <= ret.val[1] /\ ret.val[1] < x)
           /\ x < 0 => (x < ret.val[1] /\ ret.val[1] <= 0)
           /\ (y = -1 /\ x = 3) => ret.val[1] = 2

\* C11 witness: euclidean_modulo(-1, 3) returned 2
C11_Witness ==
    /\ ret.op = "euclidean_modulo"
    /\ ret.args = [y |-> -1, x |-> 3]
    /\ ret.val = <<2>>

\* the largest angle handed to the normalisation, in units of pi/HalfTurn
MaxAngle == 6

\* the three places _intersect normalises a difference of two angles
NormSites == {"ang1", "ang2", "lon3"}

\* ang1 (crs13 - crs12), ang2 (crs21 - crs23) or lon3 (lon1 - dlon): the
\* difference minuend - subtrahend, normalised
NormalizeCall(site, minuend, subtrahend) ==
    /\ ret' = Outcome("normalize",
                      [site |-> site, minuend |-> minuend,
                       subtrahend |-> subtrahend],
                      "number", <<Norm(minuend - subtrahend)>>, <<>>)
    /\ UNCHANGED <<lines, points>>

\* the angle the last normalisation was applied to, and its result
LastAngle == ret.args.minuend - ret.args.subtrahend
LastNorm == ret.val[1]

\* a and r differ by a whole number of turns
SameDirection(a, r) ==
    \E k \in -MaxAngle .. MaxAngle : a - r = k * 2 * HalfTurn

\* a is an odd multiple of pi
OddHalfTurns(a) ==
    \E k \in -MaxAngle .. MaxAngle : a = (2 * k + 1) * HalfTurn

\* C12 as stated: the normalisation maps every angle a to a value of
\* (-pi, pi] congruent to a modulo 2 pi, never -pi, and pi when a is an odd
\* multiple of pi
C12_NormHalfOpenBelow ==
    ret.op = "normalize" =>
        /\ SameDirection(LastAngle, LastNorm)
        /\ -HalfTurn < LastNorm /\ LastNorm <= HalfTurn
        /\ LastNorm # -HalfTurn
        /\ OddHalfTurns(LastAngle) => LastNorm = HalfTurn

\* C12 amended: the normalisation maps every angle a to a value of
\* [-pi, pi) congruent to a modulo 2 pi, never pi, and -pi when a is an odd
\* multiple of pi
C12_NormHalfOpenAbove ==
    ret.op = "normalize" =>
        /\ SameDirection(LastAngle, LastNorm)
        /\ -HalfTurn <= LastNorm /\ LastNorm < HalfTurn
        /\ LastNorm # HalfTurn
        /\ OddHalfTurns(LastAngle) => LastNorm = -HalfTurn

\* C12 witness: ang1 of a difference of three half turns came out as -pi
C12_Witness ==
    /\ ret.op = "normalize"
    /\ ret.args.site = "ang1"
    /\ LastAngle = 3 * HalfTurn
    /\ LastNorm = -HalfTurn

NextModulo ==
    \/ \E y \in -MaxDividend .. MaxDividend, x \in -MaxDivisor .. MaxDivisor :
          EuclideanModuloCall(y, x)
    \/ \E site \in NormSites, minuend \in -MaxAngle .. MaxAngle,
          subtrahend \in -MaxAngle .. MaxAngle :
          NormalizeCall(site, minuend, subtrahend)

SpecModulo == Init /\ [][NextModulo]_vars

====
